---- MODULE Spec2Model ----
(***************************************************************************)
(* Model of platipy/imaging/registration/registration.py: the staged       *)
(* (linear, demons, B-spline) registration functions, the pyramid builder  *)
(* and the two transform appliers.  One call runs at a time; pc is the     *)
(* position inside the running call, ops is the log of calls made into the *)
(* image processing library (SimpleITK), in the order they were made.      *)
(***************************************************************************)
EXTENDS Integers, Sequences, FiniteSets, TLC

VARIABLES
    pc,                          \* position in the running call ("idle" between calls)
    call,                        \* the running call: function name and arguments
    fixed_image,                 \* local fixed_image (rebound by casts and resampling)
    moving_image,                \* local moving_image
    fixed_image_original,        \* bspline_registration: the retained fixed image
    initial_transform,           \* local initial_transform
    registration,                \* the sitk.ImageRegistrationMethod / demons filter object
    resampler,                   \* the sitk.ResampleImageFilter object
    fixed_images,                \* multiscale_demons: the fixed pyramid
    moving_images,               \* multiscale_demons: the moving pyramid
    initial_displacement_field,  \* multiscale_demons: the evolving field
    lvl,                         \* loop counter of the running loop
    output_transform,            \* local output_transform
    registered_image,            \* local registered_image
    combined_transform,          \* initial_registration: local combined_transform
    deformation_field,           \* demons stage: local deformation_field
    tp,                          \* frame of a running transform_propagation call
    md,                          \* frame of a running multiscale_demons call
    ops,                         \* library calls made by the running call, in order
    ret,                         \* value returned to the caller (None until return)
    err,                         \* exception that ended the call (None if none)
    first_run,                   \* the finished call a caller is repeating (None if none)
    defaults                     \* the list objects bound as default arguments at import

vars == << pc, call, fixed_image, moving_image, fixed_image_original,
           initial_transform, registration, resampler, fixed_images,
           moving_images, initial_displacement_field, lvl, output_transform,
           registered_image, combined_transform, deformation_field, tp, md,
           ops, ret, err, first_run, defaults >>

\* Python's None and False, and "no exception"
None == [kind |-> "None"]
PyFalse == [kind |-> "False"]
NoError == "None"

-----------------------------------------------------------------------------
(* Bounds of the model *)

\* longest shrink / sigma / iteration schedule tried
MaxLevels == 3

-----------------------------------------------------------------------------
(* SimpleITK enumerations used by the code *)

sitkNearestNeighbor == 1
sitkLinear == 2
sitkBSpline == 3
sitkUInt8 == 1
sitkInt16 == 2
sitkFloat32 == 8
sitkVectorFloat64 == 16
\* the pixel id the demons stage compares against before casting
DemonsNoCastPixelID == 6

Interpolators == {sitkNearestNeighbor, sitkLinear, sitkBSpline}

-----------------------------------------------------------------------------
(* Strings that go through str.lower(): sequences of characters *)

UpperChars == << "A","B","C","D","E","F","G","H","I","J","K","L","M",
                 "N","O","P","Q","R","S","T","U","V","W","X","Y","Z" >>
LowerChars == << "a","b","c","d","e","f","g","h","i","j","k","l","m",
                 "n","o","p","q","r","s","t","u","v","w","x","y","z" >>

LowerChar(c) ==
    IF \E i \in 1..26 : UpperChars[i] = c
    THEN LowerChars[CHOOSE i \in 1..26 : UpperChars[i] = c]
    ELSE c

\* str.lower()
lower(s) == [i \in 1..Len(s) |-> LowerChar(s[i])]

-----------------------------------------------------------------------------
(* The string literals the code compares lower-cased names against *)

S_translation == << "t", "r", "a", "n", "s", "l", "a", "t", "i", "o", "n" >>
S_similarity == << "s", "i", "m", "i", "l", "a", "r", "i", "t", "y" >>
S_affine == << "a", "f", "f", "i", "n", "e" >>
S_rigid == << "r", "i", "g", "i", "d" >>
S_scaleversor == << "s", "c", "a", "l", "e", "v", "e", "r", "s", "o", "r" >>
S_scaleskewversor == << "s", "c", "a", "l", "e", "s", "k", "e", "w", "v", "e", "r", "s", "o", "r" >>
S_lbfgsb == << "l", "b", "f", "g", "s", "b" >>
S_lbfgs == << "l", "b", "f", "g", "s" >>
S_cgls == << "c", "g", "l", "s" >>
S_exhaustive == << "e", "x", "h", "a", "u", "s", "t", "i", "v", "e" >>
S_gradient_descent == << "g", "r", "a", "d", "i", "e", "n", "t", "_", "d", "e", "s", "c", "e", "n", "t" >>
S_gradient_descent_line_search == << "g", "r", "a", "d", "i", "e", "n", "t", "_", "d", "e", "s", "c", "e", "n", "t", "_", "l", "i", "n", "e", "_", "s", "e", "a", "r", "c", "h" >>

\* reg_method values callers pass ("Similarity" is the default)
RegMethodInputs ==
    { << "S", "i", "m", "i", "l", "a", "r", "i", "t", "y" >>,
      << "r", "i", "g", "i", "d" >>,
      << "A", "F", "F", "I", "N", "E" >>,
      << "T", "r", "a", "n", "s", "l", "a", "t", "i", "o", "n" >>,
      << "s", "c", "a", "l", "e", "v", "e", "r", "s", "o", "r" >>,
      << "S", "c", "a", "l", "e", "S", "k", "e", "w", "V", "e", "r", "s", "o", "r" >>,
      << "b", "s", "p", "l", "i", "n", "e" >> }

\* optimiser values callers pass to initial_registration ("gradient_descent" is
\* the default) and to bspline_registration ("LBFGS" is the default)
IrOptimiserInputs ==
    { << "g", "r", "a", "d", "i", "e", "n", "t", "_", "d", "e", "s", "c", "e", "n", "t" >>,
      << "L", "B", "F", "G", "S", "B" >>,
      << "e", "x", "h", "a", "u", "s", "t", "i", "v", "e" >>,
      << "g", "r", "a", "d", "i", "e", "n", "t", "_", "d", "e", "s", "c", "e", "n", "t", "_", "l", "i", "n", "e", "_", "s", "e", "a", "r", "c", "h" >>,
      << "L", "B", "F", "G", "S" >>,
      << "a", "d", "a", "m" >> }

BsOptimiserInputs ==
    { << "L", "B", "F", "G", "S" >>,
      << "l", "b", "f", "g", "s", "b" >>,
      << "C", "G", "L", "S" >>,
      << "g", "r", "a", "d", "i", "e", "n", "t", "_", "d", "e", "s", "c", "e", "n", "t" >>,
      << "g", "r", "a", "d", "i", "e", "n", "t", "_", "d", "e", "s", "c", "e", "n", "t", "_", "l", "i", "n", "e", "_", "s", "e", "a", "r", "c", "h" >>,
      << "e", "x", "h", "a", "u", "s", "t", "i", "v", "e" >>,
      << "a", "d", "a", "m" >> }

\* metric values callers pass ("mean_squares" is the default); compared as they are
IrMetricInputs ==
    { "mean_squares", "correlation", "mattes_mi", "joint_hist_mi", "ants",
      "mutual_information", "Mean_Squares" }

BsMetricInputs ==
    { "mean_squares", "correlation", "demons", "mutual_information",
      "ants", "Mean_Squares" }

-----------------------------------------------------------------------------
(* Arithmetic helpers *)

RECURSIVE Gcd(_, _)
Gcd(a, b) == IF b = 0 THEN a ELSE Gcd(b, a % b)

\* a rational n/d (d > 0) in lowest terms, as the pair <<n, d>>
Rat(n, d) == LET g == Gcd(n, d) IN IF g = 0 THEN <<0, 1>> ELSE << n \div g, d \div g >>

RECURSIVE Product(_)
Product(s) == IF s = << >> THEN 1 ELSE Head(s) * Product(Tail(s))

\* number of voxels of an image
VoxelCount(img) == Product(img.size)

\* the sampling grid of an image: size, spacing and origin/direction frame
Grid(img) == [size |-> img.size, spacing |-> img.spacing, frame |-> img.frame]

-----------------------------------------------------------------------------
(* Images handed in by callers.  size: voxels per axis; spacing: mm per     *)
(* voxel, a rational per axis; frame: the origin/direction the image        *)
(* carries; pixel: its sample type; src: whose samples they are; hist: the   *)
(* library operations that produced the samples from src.                   *)

Image(size, spacing, frame, pixel, src) ==
    [size |-> size, spacing |-> spacing, frame |-> frame, pixel |-> pixel,
     src |-> src, hist |-> << >>]

FixedImages ==
    { Image(<<16, 16, 16>>, << <<1,1>>, <<1,1>>, <<1,1>> >>, "F", sitkInt16, "fixed"),
      Image(<<16, 8, 8>>,   << <<1,1>>, <<1,1>>, <<2,1>> >>, "F", sitkFloat32, "fixed") }

MovingImages ==
    { Image(<<16, 16, 8>>,  << <<1,1>>, <<1,1>>, <<2,1>> >>, "M", sitkInt16, "moving"),
      Image(<<8, 8, 8>>,    << <<2,1>>, <<2,1>>, <<2,1>> >>, "M", DemonsNoCastPixelID, "moving") }

\* fixed / moving pairs handed to the staged registrations
ImagePairs ==
    { << Image(<<16, 16, 16>>, << <<1,1>>, <<1,1>>, <<1,1>> >>, "F", sitkInt16, "fixed"),
         Image(<<16, 16, 8>>,  << <<1,1>>, <<1,1>>, <<2,1>> >>, "M", sitkInt16, "moving") >>,
      << Image(<<16, 8, 8>>,   << <<1,1>>, <<1,1>>, <<2,1>> >>, "F", sitkFloat32, "fixed"),
         Image(<<8, 8, 8>>,    << <<2,1>>, <<2,1>>, <<2,1>> >>, "M", DemonsNoCastPixelID, "moving") >> }

-----------------------------------------------------------------------------
(* Exceptions that end a call *)

ZeroDivisionError == "ZeroDivisionError: float division by zero"
DemonsFailure == "RuntimeError: demons filter failed"
RegistrationFailure == "RuntimeError: registration failed"
StructureInterpError == "ValueError: Structure interpolation should be nearest neighbour."
RegMethodError == "ValueError: You have selected a registration method that does not exist."

-----------------------------------------------------------------------------
(* Library call log *)

Op(name, info) == [op |-> name, info |-> info]


\* sitk.Cast: same grid and samples, new sample type
Cast(img, pixel) == [img EXCEPT !.pixel = pixel]

CastOp(img, pixel) == Op("Cast", [src |-> img.src, pixel |-> pixel])

-----------------------------------------------------------------------------
(* Transforms: kind is the transform class, members the chain of a           *)
(* composite (empty otherwise), state how its parameters were obtained.      *)

Transform(kind, state) == [kind |-> kind, members |-> << >>, state |-> state]

\* sitk.CompositeTransform([...])
CompositeTransform(list) == [kind |-> "CompositeTransform", members |-> list, state |-> "composed"]

\* transforms a caller may hand to an applier
CallerTransforms ==
    { Transform("AffineTransform", "given"),
      Transform("DisplacementFieldTransform", "given") }

-----------------------------------------------------------------------------
\* positions in the log of calls named name
OpIndices(log, name) == { i \in 1..Len(log) : log[i].op = name }

OpCount(log, name) == Cardinality(OpIndices(log, name))

-----------------------------------------------------------------------------
(* sitk.ResampleImageFilter *)

NewResampler == [reference |-> None, transform |-> None, interp |-> sitkLinear, default |-> 0]

\* resampler.Execute(image): the image on the reference grid, input sample type
ResamplerOutput(r, image) ==
    [size |-> r.reference.size, spacing |-> r.reference.spacing,
     frame |-> r.reference.frame, pixel |-> image.pixel, src |-> image.src,
     hist |-> Append(image.hist,
                     Op("Resample", [interp |-> r.interp, default |-> r.default,
                                     transform |-> r.transform]))]

ResamplerExecuteOp(r, image) ==
    Op("ResamplerExecute", [src |-> image.src, interp |-> r.interp, default |-> r.default,
                            transform |-> r.transform, grid |-> Grid(r.reference)])

-----------------------------------------------------------------------------
(* The lists written as default arguments: Python builds each once, when    *)
(* the def statement runs, and every call that omits the argument gets that  *)
(* same list object.                                                          *)

DefaultLists ==
    [ir_shrink_factors |-> <<8, 2, 1>>, ir_smooth_sigmas |-> <<4, 2, 0>>,
     dm_resolution_staging |-> <<8, 4, 1>>, dm_iteration_staging |-> <<10, 10, 10>>,
     bs_resolution_staging |-> <<8, 4, 2>>, bs_smooth_sigmas |-> <<4, 2, 1>>,
     bs_grid_scale_factors |-> <<1, 2, 4>>]

\* a list taken apart as it is read (list.pop(0))
ListAfterRead_Consumed(l) == IF l = << >> THEN l ELSE Tail(l)

\* a list object after the code has read it (zip, indexing, a comprehension, a
\* library setter that copies it): what it was
ListAfterRead(l) == l

\* the default objects after the running call has read its lists: pairs holds
\* <<default object, parameter>>, given the parameters the caller left out
AfterRead(d, pairs, defaulted) ==
    [k \in DOMAIN d |->
        IF \E pr \in pairs : pr[1] = k /\ pr[2] \in defaulted
        THEN ListAfterRead(d[k]) ELSE d[k]]

-----------------------------------------------------------------------------
(* State between calls *)

Idle ==
    /\ pc = "idle"
    /\ call = [fn |-> "none"]
    /\ fixed_image = None
    /\ moving_image = None
    /\ fixed_image_original = None
    /\ initial_transform = None
    /\ registration = None
    /\ resampler = None
    /\ fixed_images = << >>
    /\ moving_images = << >>
    /\ initial_displacement_field = None
    /\ lvl = 0
    /\ output_transform = None
    /\ registered_image = None
    /\ combined_transform = None
    /\ deformation_field = None
    /\ tp = None
    /\ md = None
    /\ ops = << >>
    /\ ret = None
    /\ err = NoError
    /\ first_run = None

Init == Idle /\ defaults = DefaultLists

-----------------------------------------------------------------------------
(* transform_propagation *)

\* the check left out: any interpolator is accepted for a structure
TpStructureCheckFails_Dropped(structure, interp) == FALSE

\* the structure / interpolation check of transform_propagation
TpStructureCheckFails(structure, interp) ==
    structure /\ interp # sitkNearestNeighbor

\* where a finished transform_propagation continues
TpReturnTo == IF call.fn = "transform_propagation" THEN "done" ELSE tp.return_to

\* the body of transform_propagation on the frame tp
TransformPropagation ==
    /\ pc = "transform_propagation"
    /\ LET r0 == [NewResampler EXCEPT !.reference = tp.fixed_image,
                                      !.transform = tp.transform]
       IN  IF TpStructureCheckFails(tp.structure, tp.interp)
           THEN /\ resampler' = r0
                /\ err' = StructureInterpError
                /\ pc' = "error"
                /\ UNCHANGED << ops, registered_image, ret >>
           ELSE LET r1 == [r0 EXCEPT !.default = tp.default_value, !.interp = tp.interp]
                    out == Cast(ResamplerOutput(r1, tp.moving_image), tp.moving_image.pixel)
                IN  /\ resampler' = r1
                    /\ ops' = ops \o << ResamplerExecuteOp(r1, tp.moving_image),
                                        CastOp(out, tp.moving_image.pixel) >>
                    /\ pc' = TpReturnTo
                    /\ IF call.fn = "transform_propagation"
                       THEN ret' = out /\ UNCHANGED registered_image
                       ELSE registered_image' = out /\ UNCHANGED ret
                    /\ UNCHANGED err
    /\ UNCHANGED << call, fixed_image, moving_image, fixed_image_original,
                    initial_transform, registration, fixed_images, moving_images,
                    initial_displacement_field, lvl, output_transform,
                    combined_transform, deformation_field, tp, md >>
    /\ UNCHANGED << first_run, defaults >>

\* a caller invokes transform_propagation(fixed_image, moving_image, transform, ...)
CallTransformPropagation ==
    /\ pc = "idle"
    /\ \E f \in FixedImages, m \in MovingImages, t \in CallerTransforms,
          structure \in BOOLEAN, default_value \in {0, -1000}, interp \in Interpolators :
          /\ call' = [fn |-> "transform_propagation", structure |-> structure, interp |-> interp]
          /\ tp' = [fixed_image |-> f, moving_image |-> m, transform |-> t,
                    structure |-> structure, default_value |-> default_value,
                    interp |-> interp, return_to |-> "done"]
    /\ pc' = "transform_propagation"
    /\ UNCHANGED << fixed_image, moving_image, fixed_image_original, initial_transform,
                    registration, resampler, fixed_images, moving_images,
                    initial_displacement_field, lvl, output_transform,
                    registered_image, combined_transform, deformation_field, md,
                    ops, ret, err >>
    /\ UNCHANGED << first_run, defaults >>

-----------------------------------------------------------------------------
(* apply_field *)

\* the structure / interpolation check of apply_field
AfStructureCheckFails(structure, interp) ==
    structure /\ interp # sitkNearestNeighbor

CallApplyField ==
    /\ pc = "idle"
    /\ \E img \in FixedImages \cup MovingImages, t \in CallerTransforms,
          structure \in BOOLEAN, default_value \in {0, -1000}, interp \in Interpolators :
          call' = [fn |-> "apply_field", input_image |-> img, transform |-> t,
                   structure |-> structure, default_value |-> default_value,
                   interp |-> interp]
    /\ pc' = "apply_field"
    /\ UNCHANGED << fixed_image, moving_image, fixed_image_original, initial_transform,
                    registration, resampler, fixed_images, moving_images,
                    initial_displacement_field, lvl, output_transform,
                    registered_image, combined_transform, deformation_field, tp, md,
                    ops, ret, err >>
    /\ UNCHANGED << first_run, defaults >>

\* the body of apply_field
ApplyField ==
    /\ pc = "apply_field"
    /\ LET input_image_type == call.input_image.pixel
           r0 == [NewResampler EXCEPT !.reference = call.input_image]
       IN  IF AfStructureCheckFails(call.structure, call.interp)
           THEN /\ resampler' = r0
                /\ err' = StructureInterpError
                /\ pc' = "error"
                /\ UNCHANGED << ops, ret >>
           ELSE LET r1 == [r0 EXCEPT !.interp = call.interp, !.default = call.default_value,
                                     !.transform = call.transform]
                    casted == Cast(call.input_image, sitkFloat32)
                    resampled_image == ResamplerOutput(r1, casted)
                IN  /\ resampler' = r1
                    /\ ops' = ops \o << CastOp(call.input_image, sitkFloat32),
                                        ResamplerExecuteOp(r1, casted),
                                        CastOp(resampled_image, input_image_type) >>
                    /\ ret' = Cast(resampled_image, input_image_type)
                    /\ pc' = "done"
                    /\ UNCHANGED err
    /\ UNCHANGED << call, fixed_image, moving_image, fixed_image_original,
                    initial_transform, registration, fixed_images, moving_images,
                    initial_displacement_field, lvl, output_transform,
                    registered_image, combined_transform, deformation_field, tp, md >>
    /\ UNCHANGED << first_run, defaults >>

-----------------------------------------------------------------------------
(* sitk.ImageRegistrationMethod: a fresh object holds the library's own     *)
(* metric and optimizer until a setter is called.                            *)

LibraryDefault == "library default"

NewRegistration ==
    [shrink_factors |-> << >>, smooth_sigmas |-> << >>, moving_initial |-> None,
     metric |-> LibraryDefault, optimiser |-> LibraryDefault, scales |-> FALSE,
     moving_mask |-> None, fixed_mask |-> None, initial_transform |-> None,
     trace |-> FALSE, commands |-> {}]

RegistrationExecuteOp(reg, fixed, moving) ==
    Op("RegistrationExecute",
       [metric |-> reg.metric, optimiser |-> reg.optimiser,
        initial_transform |-> reg.initial_transform,
        moving_initial |-> reg.moving_initial,
        fixed_mask |-> reg.fixed_mask, moving_mask |-> reg.moving_mask,
        fixed |-> Grid(fixed), moving |-> Grid(moving)])

\* the transform registration.Execute returns: the initial transform, optimised in place
Optimised(t) == [t EXCEPT !.state = "optimised"]

localVars == << fixed_image, moving_image, fixed_image_original, initial_transform >>
pyramidVars == << fixed_images, moving_images, initial_displacement_field, lvl >>
resultVars == << output_transform, registered_image, combined_transform,
                deformation_field, md >>

-----------------------------------------------------------------------------
(* smooth_and_resample.  A shrink factor is a number or a per-axis list:     *)
(* Scalar(f) and PerAxis(l).                                                  *)

Scalar(f) == [is_list |-> FALSE, value |-> f]
PerAxis(l) == [is_list |-> TRUE, value |-> l]

Min(a, b) == IF a < b THEN a ELSE b

\* int(num / den + 0.5) for num >= 0, den > 0
RoundHalfUp(num, den) == (2 * num + den) \div (2 * den)

\* lines 401-409: the new size per axis (zip stops at the shorter sequence)
SarNewSize(image, shrink_factor, isotropic_resample) ==
    IF isotropic_resample
    THEN \* scale_factor = shrink_factor / spacing; new = int(sz / scale_factor + 0.5)
         [i \in 1..Len(image.size) |->
            LET f == IF shrink_factor.is_list THEN shrink_factor.value[i]
                     ELSE shrink_factor.value
            IN  RoundHalfUp(image.size[i] * image.spacing[i][1], f * image.spacing[i][2])]
    ELSE IF shrink_factor.is_list
         THEN [i \in 1..Min(Len(image.size), Len(shrink_factor.value)) |->
                 RoundHalfUp(image.size[i], shrink_factor.value[i])]
         ELSE [i \in 1..Len(image.size) |-> RoundHalfUp(image.size[i], shrink_factor.value)]

\* the divisor kept away from zero: max(new_sz - 1, 1)
SarZeroDivision_Guarded(image, shrink_factor, isotropic_resample) == FALSE

\* lines 411-414: the division that computes new_spacing fails on new_sz = 1
SarZeroDivision(image, shrink_factor, isotropic_resample) ==
    LET new_size == SarNewSize(image, shrink_factor, isotropic_resample)
    IN  \E i \in 1..Len(new_size) : new_size[i] - 1 = 0

\* the spacing scaled by the ratio of the sizes: original_sz * original_spc / new_sz
SarNewSpacing_BySize(image, new_size) ==
    [i \in 1..Len(new_size) |->
        Rat(image.size[i] * image.spacing[i][1], image.spacing[i][2] * new_size[i])]

\* lines 411-414: ((original_sz - 1) * original_spc) / (new_sz - 1) per axis
SarNewSpacing(image, new_size) ==
    [i \in 1..Len(new_size) |->
        Rat((image.size[i] - 1) * image.spacing[i][1],
            image.spacing[i][2] * (new_size[i] - 1))]

\* line 393: int(max([8 * smoothing_sigma * i for i in image.GetSpacing()]))
SarMaximumKernelWidth(image, smoothing_sigma) ==
    LET w(i) == (8 * smoothing_sigma * image.spacing[i][1]) \div image.spacing[i][2]
    IN  CHOOSE m \in { w(i) : i \in 1..Len(image.spacing) } :
            \A i \in 1..Len(image.spacing) : w(i) <= m

\* lines 391-396: the smoothed image
SarSmoothed(image, smoothing_sigma) ==
    IF smoothing_sigma > 0
    THEN [image EXCEPT !.hist = Append(@,
             Op("DiscreteGaussian",
                [variance |-> smoothing_sigma * smoothing_sigma,
                 width |-> SarMaximumKernelWidth(image, smoothing_sigma)]))]
    ELSE image

\* lines 416-426: the image smooth_and_resample returns when it does not raise
SmoothAndResample(image, shrink_factor, smoothing_sigma, isotropic_resample) ==
    LET new_size == SarNewSize(image, shrink_factor, isotropic_resample)
        smoothed_image == SarSmoothed(image, smoothing_sigma)
    IN  [size |-> new_size, spacing |-> SarNewSpacing(image, new_size),
         frame |-> image.frame, pixel |-> image.pixel, src |-> image.src,
         hist |-> Append(smoothed_image.hist,
                         Op("Resample", [interp |-> sitkLinear, default |-> 0,
                                         transform |-> Transform("Transform", "identity")]))]

\* the library calls a completed smooth_and_resample makes
SarOps(image, shrink_factor, smoothing_sigma, isotropic_resample) ==
    (IF smoothing_sigma > 0
     THEN << Op("DiscreteGaussian", [src |-> image.src, sigma |-> smoothing_sigma]) >>
     ELSE << >>)
    \o << Op("Resample", [src |-> image.src,
                          size |-> SarNewSize(image, shrink_factor, isotropic_resample)]) >>

\* the library calls made by a smooth_and_resample that raises
SarOpsRaised(image, smoothing_sigma) ==
    IF smoothing_sigma > 0
    THEN << Op("DiscreteGaussian", [src |-> image.src, sigma |-> smoothing_sigma]) >>
    ELSE << >>


-----------------------------------------------------------------------------
(* initial_registration *)

Masks ==
    { PyFalse,
      Image(<<16, 16, 16>>, << <<1,1>>, <<1,1>>, <<1,1>> >>, "F", sitkUInt8, "mask") }

\* Python truthiness of a mask argument (False, or an image with voxels)
Truthy(x) == x # PyFalse /\ x # None

\* the metric dispatch of initial_registration
IrSetMetric(reg, metric) ==
    IF metric = "correlation" THEN [reg EXCEPT !.metric = "Correlation"]
    ELSE IF metric = "mean_squares" THEN [reg EXCEPT !.metric = "MeanSquares"]
    ELSE IF metric = "mattes_mi" THEN [reg EXCEPT !.metric = "MattesMutualInformation"]
    ELSE IF metric = "joint_hist_mi"
         THEN [reg EXCEPT !.metric = "JointHistogramMutualInformation"]
    ELSE IF metric = "ants" THEN [reg EXCEPT !.metric = "ANTSNeighborhoodCorrelation"]
    ELSE reg

\* the masks handed to the setters of the other side
IrSetMasks_Crossed(reg, fixed_structure, moving_structure) ==
    [reg EXCEPT !.moving_mask = IF Truthy(fixed_structure) THEN fixed_structure ELSE @,
                !.fixed_mask = IF Truthy(moving_structure) THEN moving_structure ELSE @]

\* the mask setters of initial_registration
IrSetMasks(reg, fixed_structure, moving_structure) ==
    [reg EXCEPT !.moving_mask = IF Truthy(moving_structure) THEN moving_structure ELSE @,
                !.fixed_mask = IF Truthy(fixed_structure) THEN fixed_structure ELSE @]

\* the dispatch without its final else: an unknown family leaves the default
IrTransformFamily_NoElse(reg_method) ==
    IF lower(reg_method) = S_translation THEN Transform("TranslationTransform", "identity")
    ELSE IF lower(reg_method) = S_affine THEN Transform("AffineTransform", "identity")
    ELSE IF lower(reg_method) = S_rigid THEN Transform("VersorRigid3DTransform", "identity")
    ELSE IF lower(reg_method) = S_scaleversor
         THEN Transform("ScaleVersor3DTransform", "identity")
    ELSE IF lower(reg_method) = S_scaleskewversor
         THEN Transform("ScaleSkewVersor3DTransform", "identity")
    ELSE Transform("Similarity3DTransform", "identity")

\* the transform family dispatch of initial_registration: the transform class
\* handed to SetInitialTransform, or None where the code raises ValueError
IrTransformFamily(reg_method) ==
    IF lower(reg_method) = S_translation THEN Transform("TranslationTransform", "identity")
    ELSE IF lower(reg_method) = S_similarity THEN Transform("Similarity3DTransform", "identity")
    ELSE IF lower(reg_method) = S_affine THEN Transform("AffineTransform", "identity")
    ELSE IF lower(reg_method) = S_rigid THEN Transform("VersorRigid3DTransform", "identity")
    ELSE IF lower(reg_method) = S_scaleversor
         THEN Transform("ScaleVersor3DTransform", "identity")
    ELSE IF lower(reg_method) = S_scaleskewversor
         THEN Transform("ScaleSkewVersor3DTransform", "identity")
    ELSE None

\* the optimiser dispatch of initial_registration
IrSetOptimiser(reg, optimiser, verbose) ==
    IF lower(optimiser) = S_lbfgsb
    THEN [reg EXCEPT !.optimiser = "LBFGSB", !.trace = verbose]
    ELSE IF lower(optimiser) = S_exhaustive THEN [reg EXCEPT !.optimiser = "Exhaustive"]
    ELSE IF lower(optimiser) = S_gradient_descent_line_search
         THEN [reg EXCEPT !.optimiser = "GradientDescentLineSearch"]
    ELSE IF lower(optimiser) = S_gradient_descent
         THEN [reg EXCEPT !.optimiser = "GradientDescent"]
    ELSE reg

\* the seed computed but never handed to the registration
IrMovingInitialTransform_Unset(transform) == None

\* line 230: registration.SetMovingInitialTransform(initial_transform)
IrMovingInitialTransform(transform) == transform

\* the chain built in the opposite order
IrCombine_Swapped(initial, output) == CompositeTransform(<< output, initial >>)

\* line 311: sitk.CompositeTransform([initial_transform, output_transform])
IrCombine(initial, output) == CompositeTransform(<< initial, output >>)

\* the setup with the images smoothed before the transform family is looked at
IrSetupOps_Smoothing(fixed, moving) ==
    << CastOp(fixed, sitkFloat32), CastOp(moving, sitkFloat32),
       Op("DiscreteGaussian", [src |-> fixed.src, sigma |-> 4]),
       Op("CenteredTransformInitializer",
          [fixed |-> Grid(Cast(fixed, sitkFloat32)),
           moving |-> Grid(Cast(moving, sitkFloat32)),
           transform |-> "Euler3DTransform", operationMode |-> PyFalse]) >>

\* lines 213-222: the library calls made before the registration object exists
IrSetupOps(fixed, moving) ==
    << CastOp(fixed, sitkFloat32), CastOp(moving, sitkFloat32),
       Op("CenteredTransformInitializer",
          [fixed |-> Grid(Cast(fixed, sitkFloat32)),
           moving |-> Grid(Cast(moving, sitkFloat32)),
           transform |-> "Euler3DTransform", operationMode |-> PyFalse]) >>

\* an observer that resets the metric of the object it watches
AddCommands_Steering(reg, verbose, events) ==
    IF verbose
    THEN IF "metric" \in DOMAIN reg
         THEN [reg EXCEPT !.commands = @ \cup events, !.metric = LibraryDefault]
         ELSE [reg EXCEPT !.commands = @ \cup events, !.iterations = 1]
    ELSE reg

\* registration.AddCommand(...) under verbose: the callbacks only print
AddCommands(reg, verbose, events) ==
    IF verbose THEN [reg EXCEPT !.commands = @ \cup events] ELSE reg

CallInitialRegistration ==
    /\ pc = "idle"
    /\ \E p \in ImagePairs, fs \in Masks, ms \in Masks,
          reg_method \in RegMethodInputs, metric \in IrMetricInputs,
          optimiser \in IrOptimiserInputs,
          final_interp \in {sitkNearestNeighbor, sitkLinear}, verbose \in BOOLEAN :
          call' = [fn |-> "initial_registration",
                   fixed_image |-> p[1], moving_image |-> p[2],
                   fixed_structure |-> fs, moving_structure |-> ms,
                   reg_method |-> reg_method, metric |-> metric, optimiser |-> optimiser,
                   shrink_factors |-> defaults.ir_shrink_factors,
                   smooth_sigmas |-> defaults.ir_smooth_sigmas,
                   defaulted |-> {"shrink_factors", "smooth_sigmas"},
                   final_interp |-> final_interp, default_value |-> -1000,
                   verbose |-> verbose]
    /\ pc' = "ir_setup"
    /\ UNCHANGED << localVars, pyramidVars, resultVars, registration, resampler,
                    tp, ops, ret, err >>
    /\ UNCHANGED << first_run, defaults >>

\* lines 213-257: casts, initializer, registration object, metric, masks
IrSetup ==
    /\ pc = "ir_setup"
    /\ LET f == Cast(call.fixed_image, sitkFloat32)
           m == Cast(call.moving_image, sitkFloat32)
           it == Transform("Euler3DTransform", "centered")
           r0 == [NewRegistration EXCEPT !.shrink_factors = call.shrink_factors,
                                         !.smooth_sigmas = call.smooth_sigmas,
                                         !.moving_initial = IrMovingInitialTransform(it)]
           r1 == [IrSetMetric(r0, call.metric) EXCEPT !.scales = TRUE]
       IN  /\ fixed_image' = f
           /\ moving_image' = m
           /\ initial_transform' = it
           /\ registration' = IrSetMasks(r1, call.fixed_structure, call.moving_structure)
           /\ ops' = ops \o IrSetupOps(call.fixed_image, call.moving_image)
    /\ pc' = "ir_transform"
    /\ UNCHANGED << call, fixed_image_original, pyramidVars, resultVars, resampler,
                    tp, ret, err >>
    /\ defaults' = AfterRead(defaults, { <<"ir_shrink_factors", "shrink_factors">>,
                                        <<"ir_smooth_sigmas", "smooth_sigmas">> }, call.defaulted)
    /\ UNCHANGED first_run

\* lines 259-275: transform family, or ValueError
IrTransform ==
    /\ pc = "ir_transform"
    /\ LET t == IrTransformFamily(call.reg_method)
       IN  IF t = None
           THEN /\ err' = RegMethodError
                /\ pc' = "error"
                /\ UNCHANGED registration
           ELSE /\ registration' = [registration EXCEPT !.initial_transform = t]
                /\ pc' = "ir_optimiser"
                /\ UNCHANGED err
    /\ UNCHANGED << call, localVars, pyramidVars, resultVars, resampler, tp, ops, ret >>
    /\ UNCHANGED << first_run, defaults >>

\* lines 277-307: optimiser and progress command
IrOptimiser ==
    /\ pc = "ir_optimiser"
    /\ registration' = AddCommands(IrSetOptimiser(registration, call.optimiser, call.verbose),
                                   call.verbose, {"sitkIterationEvent"})
    /\ pc' = "ir_execute"
    /\ UNCHANGED << call, localVars, pyramidVars, resultVars, resampler, tp, ops, ret, err >>
    /\ UNCHANGED << first_run, defaults >>

\* lines 309-319: run the registration (the library may fail), compose, and
\* enter transform_propagation
IrExecute ==
    /\ pc = "ir_execute"
    /\ ops' = Append(ops, RegistrationExecuteOp(registration, fixed_image, moving_image))
    /\ \/ /\ err' = RegistrationFailure
          /\ pc' = "error"
          /\ UNCHANGED << resultVars, tp >>
       \/ LET ot == Optimised(registration.initial_transform)
              ct == IrCombine(initial_transform, ot)
          IN  /\ output_transform' = ot
              /\ combined_transform' = ct
              /\ tp' = [fixed_image |-> fixed_image, moving_image |-> moving_image,
                        transform |-> ct, structure |-> FALSE,
                        default_value |-> call.default_value,
                        interp |-> call.final_interp, return_to |-> "ir_finish"]
              /\ pc' = "transform_propagation"
              /\ UNCHANGED << registered_image, deformation_field, md, err >>
    /\ UNCHANGED << call, localVars, pyramidVars, registration, resampler, ret >>
    /\ UNCHANGED << first_run, defaults >>

\* lines 320-322: cast back and return
IrFinish ==
    /\ pc = "ir_finish"
    /\ LET out == Cast(registered_image, call.moving_image.pixel)
       IN  /\ registered_image' = out
           /\ ops' = Append(ops, CastOp(registered_image, call.moving_image.pixel))
           /\ ret' = [registered_image |-> out, transform |-> combined_transform]
    /\ pc' = "done"
    /\ UNCHANGED << call, localVars, pyramidVars, output_transform, combined_transform,
                    deformation_field, md, registration, resampler, tp, err >>
    /\ UNCHANGED << first_run, defaults >>

-----------------------------------------------------------------------------
(* bspline_registration *)

\* the conversion without the half added: number_points.astype(int)
control_point_spacing_distance_to_number_Truncating(image, grid_spacing) ==
    [i \in 1..Len(image.size) |->
        (image.size[i] * image.spacing[i][1]) \div (grid_spacing * image.spacing[i][2])]

\* lines 103-110: (size * spacing / grid_spacing + 0.5).astype(int) per axis
control_point_spacing_distance_to_number(image, grid_spacing) ==
    [i \in 1..Len(image.size) |->
        RoundHalfUp(image.size[i] * image.spacing[i][1], grid_spacing * image.spacing[i][2])]

\* the optimiser dispatch of bspline_registration
BsSetOptimiser(reg, optimiser, verbose) ==
    IF lower(optimiser) = S_lbfgsb
    THEN [reg EXCEPT !.optimiser = "LBFGSB", !.trace = verbose]
    ELSE IF lower(optimiser) = S_lbfgs THEN [reg EXCEPT !.optimiser = "LBFGS2"]
    ELSE IF lower(optimiser) = S_cgls
         THEN [reg EXCEPT !.optimiser = "ConjugateGradientLineSearch", !.scales = TRUE]
    ELSE IF lower(optimiser) = S_gradient_descent
         THEN [reg EXCEPT !.optimiser = "GradientDescent", !.scales = TRUE]
    ELSE IF lower(optimiser) = S_gradient_descent_line_search
         THEN [reg EXCEPT !.optimiser = "GradientDescentLineSearch", !.scales = TRUE]
    ELSE reg

\* the metric dispatch of bspline_registration
BsSetMetric(reg, metric) ==
    IF metric = "correlation" THEN [reg EXCEPT !.metric = "Correlation"]
    ELSE IF metric = "mean_squares" THEN [reg EXCEPT !.metric = "MeanSquares"]
    ELSE IF metric = "demons" THEN [reg EXCEPT !.metric = "Demons"]
    ELSE IF metric = "mutual_information"
         THEN [reg EXCEPT !.metric = "MattesMutualInformation"]
    ELSE reg

\* the mask setters of bspline_registration ("is not False")
BsSetMasks(reg, fixed_structure, moving_structure) ==
    [reg EXCEPT !.moving_mask = IF moving_structure # PyFalse THEN moving_structure ELSE @,
                !.fixed_mask = IF fixed_structure # PyFalse THEN fixed_structure ELSE @]

\* the final resampling on the working (possibly isotropic) fixed image
BsFinalReference_Working == fixed_image

\* the reference image of the final resampling (line 918)
BsFinalReference == fixed_image_original

CallBsplineRegistration ==
    /\ pc = "idle"
    /\ \E p \in ImagePairs, fs \in Masks, ms \in Masks,
          metric \in BsMetricInputs, optimiser \in BsOptimiserInputs,
          interp_order \in {sitkLinear, sitkBSpline}, isotropic_resample \in BOOLEAN,
          initial_isotropic_size \in {1, 2, 16}, verbose \in BOOLEAN :
          call' = [fn |-> "bspline_registration",
                   fixed_image |-> p[1], moving_image |-> p[2],
                   fixed_structure |-> fs, moving_structure |-> ms,
                   resolution_staging |-> defaults.bs_resolution_staging,
                   smooth_sigmas |-> defaults.bs_smooth_sigmas,
                   optimiser |-> optimiser, metric |-> metric,
                   initial_grid_spacing |-> 8,
                   grid_scale_factors |-> defaults.bs_grid_scale_factors,
                   defaulted |-> {"resolution_staging", "smooth_sigmas",
                                  "grid_scale_factors"},
                   interp_order |-> interp_order, default_value |-> -1000,
                   isotropic_resample |-> isotropic_resample,
                   initial_isotropic_size |-> IF isotropic_resample
                                              THEN initial_isotropic_size ELSE 1,
                   verbose |-> verbose]
    /\ pc' = "bs_cast"
    /\ UNCHANGED << localVars, pyramidVars, resultVars, registration, resampler,
                    tp, ops, ret, err >>
    /\ UNCHANGED << first_run, defaults >>

\* lines 776-780: casts
BsCast ==
    /\ pc = "bs_cast"
    /\ fixed_image' = Cast(call.fixed_image, sitkFloat32)
    /\ moving_image' = Cast(call.moving_image, sitkFloat32)
    /\ ops' = ops \o << CastOp(call.fixed_image, sitkFloat32),
                        CastOp(call.moving_image, sitkFloat32) >>
    /\ pc' = "bs_isotropic"
    /\ UNCHANGED << call, fixed_image_original, initial_transform, pyramidVars,
                    resultVars, registration, resampler, tp, ret, err >>
    /\ UNCHANGED << first_run, defaults >>

\* lines 786-805: optional isotropic resample; the fixed image is retained first
BsIsotropic ==
    /\ pc = "bs_isotropic"
    /\ fixed_image_original' = fixed_image
    /\ IF call.isotropic_resample
       THEN LET sf == Scalar(call.initial_isotropic_size)
            IN  IF SarZeroDivision(fixed_image, sf, TRUE)
                THEN /\ err' = ZeroDivisionError
                     /\ pc' = "error"
                     /\ UNCHANGED << fixed_image, moving_image, ops >>
                ELSE IF SarZeroDivision(moving_image, sf, TRUE)
                THEN /\ fixed_image' = SmoothAndResample(fixed_image, sf, 0, TRUE)
                     /\ ops' = ops \o SarOps(fixed_image, sf, 0, TRUE)
                     /\ err' = ZeroDivisionError
                     /\ pc' = "error"
                     /\ UNCHANGED moving_image
                ELSE /\ fixed_image' = SmoothAndResample(fixed_image, sf, 0, TRUE)
                     /\ moving_image' = SmoothAndResample(moving_image, sf, 0, TRUE)
                     /\ ops' = ops \o SarOps(fixed_image, sf, 0, TRUE)
                                   \o SarOps(moving_image, sf, 0, TRUE)
                     /\ pc' = "bs_setup"
                     /\ UNCHANGED err
       ELSE /\ pc' = "bs_setup"
            /\ UNCHANGED << fixed_image, moving_image, ops, err >>
    /\ UNCHANGED << call, initial_transform, pyramidVars, resultVars, registration,
                    resampler, tp, ret >>
    /\ UNCHANGED << first_run, defaults >>

\* lines 807-883: registration object, optimiser, metric, sampling, masks
BsSetup ==
    /\ pc = "bs_setup"
    /\ LET r0 == [NewRegistration EXCEPT !.shrink_factors = call.resolution_staging,
                                         !.smooth_sigmas = call.smooth_sigmas]
           r1 == BsSetMetric(BsSetOptimiser(r0, call.optimiser, call.verbose), call.metric)
       IN  registration' = BsSetMasks(r1, call.fixed_structure, call.moving_structure)
    /\ pc' = "bs_transform"
    /\ UNCHANGED << call, localVars, pyramidVars, resultVars, resampler, tp, ops, ret, err >>
    /\ defaults' = AfterRead(defaults, { <<"bs_resolution_staging", "resolution_staging">>,
                                        <<"bs_smooth_sigmas", "smooth_sigmas">> }, call.defaulted)
    /\ UNCHANGED first_run

\* lines 885-911: control point grid, initial B-spline transform, commands
BsTransform ==
    /\ pc = "bs_transform"
    /\ LET transform_domain_mesh_size ==
               control_point_spacing_distance_to_number(fixed_image,
                                                        call.initial_grid_spacing)
           it == [kind |-> "BSplineTransform", members |-> << >>, state |-> "initialised",
                  mesh_size |-> transform_domain_mesh_size,
                  scale_factors |-> call.grid_scale_factors]
       IN  /\ initial_transform' = it
           /\ registration' =
                  AddCommands([registration EXCEPT !.initial_transform = it], call.verbose,
                              {"sitkIterationEvent", "sitkMultiResolutionIterationEvent"})
           /\ ops' = Append(ops, Op("BSplineTransformInitializer",
                                    [fixed |-> Grid(fixed_image),
                                     mesh_size |-> transform_domain_mesh_size]))
    /\ pc' = "bs_execute"
    /\ UNCHANGED << call, fixed_image, moving_image, fixed_image_original, pyramidVars,
                    resultVars, resampler, tp, ret, err >>
    /\ defaults' = AfterRead(defaults, { <<"bs_grid_scale_factors", "grid_scale_factors">> },
                            call.defaulted)
    /\ UNCHANGED first_run

\* lines 913-923: run the registration (the library may fail) and enter
\* transform_propagation
BsExecute ==
    /\ pc = "bs_execute"
    /\ ops' = Append(ops, RegistrationExecuteOp(registration, fixed_image, moving_image))
    /\ \/ /\ err' = RegistrationFailure
          /\ pc' = "error"
          /\ UNCHANGED << resultVars, tp >>
       \/ LET ot == Optimised(registration.initial_transform)
          IN  /\ output_transform' = ot
              /\ tp' = [fixed_image |-> BsFinalReference, moving_image |-> moving_image,
                        transform |-> ot, structure |-> FALSE,
                        default_value |-> call.default_value,
                        interp |-> call.interp_order, return_to |-> "bs_finish"]
              /\ pc' = "transform_propagation"
              /\ UNCHANGED << registered_image, combined_transform, deformation_field, md, err >>
    /\ UNCHANGED << call, localVars, pyramidVars, registration, resampler, ret >>
    /\ UNCHANGED << first_run, defaults >>

\* lines 924-927: cast back and return
BsFinish ==
    /\ pc = "bs_finish"
    /\ LET out == Cast(registered_image, call.moving_image.pixel)
       IN  /\ registered_image' = out
           /\ ops' = Append(ops, CastOp(registered_image, call.moving_image.pixel))
           /\ ret' = [registered_image |-> out, transform |-> output_transform]
    /\ pc' = "done"
    /\ UNCHANGED << call, localVars, pyramidVars, output_transform, combined_transform,
                    deformation_field, md, registration, resampler, tp, err >>
    /\ UNCHANGED << first_run, defaults >>

-----------------------------------------------------------------------------
(* multiscale_demons *)

\* shrink factors tried in schedules
ShrinkSet == {1, 2, 8}

\* all sequences over S of length n
SeqsOfLen(S, n) == [1..n -> S]

\* shrink schedules of length 1..MaxLevels
Schedules == UNION { SeqsOfLen(ShrinkSet, n) : n \in 1..MaxLevels }

\* a sigma list of length n: <<n-1, ..., 1, 0>>
SigmaList(n) == [i \in 1..n |-> n - i]

\* an iteration list of length n: <<10, 9, ...>>
IterationList(n) == [i \in 1..n |-> 11 - i]

\* fixed / moving pairs handed to multiscale_demons
PyramidPairs ==
    { << Image(<<32, 32, 16>>, << <<1,1>>, <<1,1>>, <<2,1>> >>, "F", sitkFloat32, "fixed"),
         Image(<<32, 16, 16>>, << <<1,1>>, <<2,1>>, <<2,1>> >>, "M", sitkFloat32, "moving") >>,
      << Image(<<16, 16, 16>>, << <<1,1>>, <<1,1>>, <<1,1>> >>, "F", sitkFloat32, "fixed"),
         Image(<<16, 16, 8>>,  << <<1,1>>, <<1,1>>, <<2,1>> >>, "M", sitkFloat32, "moving") >>,
      << Image(<<16, 8>>, << <<1,1>>, <<2,1>> >>, "F", sitkFloat32, "fixed"),
         Image(<<8, 8>>,  << <<2,1>>, <<2,1>> >>, "M", sitkFloat32, "moving") >> }

\* a displacement field a caller hands in, on the fixed image's grid
GivenField(f) ==
    [size |-> f.size, spacing |-> f.spacing, frame |-> f.frame,
     pixel |-> sitkVectorFloat64, src |-> "given field", hist |-> << >>]

\* sitk.Resample(field, reference): the field on the reference grid
ResampleOnto(field, reference) ==
    [field EXCEPT !.size = reference.size, !.spacing = reference.spacing,
                  !.frame = reference.frame,
                  !.hist = Append(@, Op("Resample", [onto |-> Grid(reference)]))]

\* a pyramid of the first pair only
MdLevels_SingleLevel(shrink_factors, smoothing_sigmas) == 1

\* line 464: the number of (shrink_factor, smoothing_sigma) pairs zip yields
MdLevels(shrink_factors, smoothing_sigmas) ==
    Min(Len(shrink_factors), Len(smoothing_sigmas))

\* the pyramid built without reversing the schedule
MdBuildIndex_NotReversed(n, j) == j + 1

\* line 464: the schedule index (1-based) built in the j-th pass (0-based) of the
\* loop over the reversed schedule
MdBuildIndex(n, j) == n - j

\* the precedence the other way round: a transform wins over a field
MdInitialField_TransformFirst(field_arg, transform_arg, coarsest, ndim) ==
    IF transform_arg # None
    THEN [size |-> coarsest.size, spacing |-> coarsest.spacing,
          frame |-> coarsest.frame, pixel |-> sitkVectorFloat64,
          src |-> "transform", hist |-> << Op("TransformToDisplacementField",
                                              [transform |-> transform_arg]) >>]
    ELSE IF field_arg # None
         THEN ResampleOnto(field_arg, coarsest)
         ELSE [size |-> coarsest.size, spacing |-> coarsest.spacing,
               frame |-> coarsest.frame, pixel |-> sitkVectorFloat64,
               src |-> "zero", hist |-> << >>]

\* lines 485-511: the field the first solver run starts from, on the coarsest fixed level
MdInitialField(field_arg, transform_arg, coarsest, ndim) ==
    IF field_arg = None
    THEN IF transform_arg # None
         THEN [size |-> coarsest.size, spacing |-> coarsest.spacing,
               frame |-> coarsest.frame, pixel |-> sitkVectorFloat64,
               src |-> "transform", hist |-> << Op("TransformToDisplacementField",
                                                   [transform |-> transform_arg]) >>]
         ELSE IF ndim \in {2, 3}
              THEN [size |-> coarsest.size, spacing |-> coarsest.spacing,
                    frame |-> coarsest.frame, pixel |-> sitkVectorFloat64,
                    src |-> "zero", hist |-> << >>]
              ELSE None
    ELSE ResampleOnto(field_arg, coarsest)

\* the pyramid lists walked from their front
MdRunLevel_FromFront(n, k) == k + 1

\* lines 520-522: the pyramid position (1-based) of the level run k (0-based) works on
MdRunLevel(n, k) == n - k

\* registration_algorithm.Execute(fixed, moving, field): the refined field
DemonsOutput(fixed, moving, field, iters) ==
    [field EXCEPT !.size = fixed.size, !.spacing = fixed.spacing, !.frame = fixed.frame,
                  !.hist = Append(@, Op("Demons", [iters |-> iters, fixed |-> Grid(fixed),
                                                    moving |-> Grid(moving)]))]

DemonsExecuteOp(k, fixed, moving, field, iters) ==
    Op("DemonsExecute", [run |-> k, iters |-> iters, fixed |-> fixed, moving |-> moving,
                         field |-> field])

\* a handler that keeps the field of the levels already solved
MdSolverFailureTarget_BestSoFar(return_to) == "md_finish"

\* lines 516-518 and 526-528: Execute is called outside any try block, so a
\* solver failure leaves multiscale_demons (and its caller) at once
MdSolverFailureTarget(return_to) == "error"

NewDemonsFilter == [kind |-> "FastSymmetricForcesDemonsRegistrationFilter",
                    iterations |-> 0, commands |-> {}]

CallMultiscaleDemons ==
    /\ pc = "idle"
    /\ \E p \in PyramidPairs, shrink_factors \in Schedules,
          sigma_len \in 1..MaxLevels, iter_len \in 0..MaxLevels,
          isotropic_resample \in BOOLEAN,
          init \in { <<FALSE, FALSE>>, <<FALSE, TRUE>>, <<TRUE, TRUE>> } :
          /\ call' = [fn |-> "multiscale_demons", fixed_image |-> p[1],
                      moving_image |-> p[2]]
          /\ md' = [fixed_image |-> p[1], moving_image |-> p[2],
                    initial_transform |->
                        IF init[2] THEN Transform("AffineTransform", "given") ELSE None,
                    initial_displacement_field |->
                        IF init[1] THEN GivenField(p[1]) ELSE None,
                    shrink_factors |-> shrink_factors,
                    smoothing_sigmas |-> SigmaList(sigma_len),
                    iteration_staging |-> IterationList(iter_len),
                    isotropic_resample |-> isotropic_resample,
                    defaulted |-> {},
                    return_to |-> "done"]
    /\ registration' = NewDemonsFilter
    /\ pc' = "md_pyramid"
    /\ UNCHANGED << localVars, pyramidVars, output_transform, registered_image,
                    combined_transform, deformation_field, resampler, tp, ops, ret, err >>
    /\ UNCHANGED << first_run, defaults >>

\* lines 464-480: one pass of the pyramid loop (fixed level, then moving level)
MdPyramid ==
    /\ pc = "md_pyramid"
    /\ LET n == MdLevels(md.shrink_factors, md.smoothing_sigmas)
       IN  IF lvl < n
           THEN LET idx == MdBuildIndex(n, lvl)
                    sf == Scalar(md.shrink_factors[idx])
                    sigma == md.smoothing_sigmas[idx]
                    iso == md.isotropic_resample
                IN  IF SarZeroDivision(md.fixed_image, sf, iso)
                    THEN /\ ops' = ops \o SarOpsRaised(md.fixed_image, sigma)
                         /\ err' = ZeroDivisionError
                         /\ pc' = "error"
                         /\ UNCHANGED << fixed_images, moving_images, lvl >>
                    ELSE IF SarZeroDivision(md.moving_image, sf, iso)
                    THEN /\ fixed_images' =
                               Append(fixed_images,
                                      SmoothAndResample(md.fixed_image, sf, sigma, iso))
                         /\ ops' = ops \o SarOps(md.fixed_image, sf, sigma, iso)
                                       \o SarOpsRaised(md.moving_image, sigma)
                         /\ err' = ZeroDivisionError
                         /\ pc' = "error"
                         /\ UNCHANGED << moving_images, lvl >>
                    ELSE /\ fixed_images' =
                               Append(fixed_images,
                                      SmoothAndResample(md.fixed_image, sf, sigma, iso))
                         /\ moving_images' =
                               Append(moving_images,
                                      SmoothAndResample(md.moving_image, sf, sigma, iso))
                         /\ ops' = ops \o SarOps(md.fixed_image, sf, sigma, iso)
                                       \o SarOps(md.moving_image, sf, sigma, iso)
                         /\ lvl' = lvl + 1
                         /\ UNCHANGED << pc, err >>
           ELSE /\ pc' = "md_field"
                /\ UNCHANGED << fixed_images, moving_images, lvl, ops, err >>
    /\ UNCHANGED << call, localVars, initial_displacement_field, resultVars,
                    registration, resampler, tp, ret >>
    /\ defaults' = AfterRead(defaults, { <<"dm_resolution_staging", "shrink_factors">> },
                            md.defaulted)
    /\ UNCHANGED first_run

\* lines 482-511: the initial displacement field on the coarsest level
MdField ==
    /\ pc = "md_field"
    /\ IF Len(fixed_images) = 0
       THEN /\ err' = "IndexError: list index out of range"
            /\ pc' = "error"
            /\ UNCHANGED << initial_displacement_field, lvl, ops >>
       ELSE LET coarsest == fixed_images[Len(fixed_images)]
                field == MdInitialField(md.initial_displacement_field,
                                        md.initial_transform, coarsest,
                                        Len(md.moving_image.size))
            IN  IF field = None
                THEN /\ err' = "AttributeError: 'NoneType' object has no attribute"
                     /\ pc' = "error"
                     /\ UNCHANGED << initial_displacement_field, lvl, ops >>
                ELSE /\ initial_displacement_field' = field
                     /\ ops' = Append(ops, Op("InitialField", [src |-> field.src,
                                                               grid |-> Grid(field)]))
                     /\ lvl' = 0
                     /\ pc' = "md_run"
                     /\ UNCHANGED err
    /\ UNCHANGED << call, localVars, fixed_images, moving_images, resultVars,
                    registration, resampler, tp, ret >>
    /\ UNCHANGED << first_run, defaults >>

\* lines 513-528: solver run number lvl (0 is the coarsest level); the solver may fail
MdRun ==
    /\ pc = "md_run"
    /\ LET n == Len(fixed_images)
           f_image == fixed_images[MdRunLevel(n, lvl)]
           m_image == moving_images[MdRunLevel(n, lvl)]
           field == IF lvl = 0 THEN initial_displacement_field
                    ELSE ResampleOnto(initial_displacement_field, f_image)
       IN  IF lvl + 1 > Len(md.iteration_staging)
           THEN /\ initial_displacement_field' = field
                /\ err' = "IndexError: list index out of range"
                /\ pc' = "error"
                /\ ops' = IF lvl = 0 THEN ops
                          ELSE Append(ops, Op("ResampleField", [onto |-> Grid(f_image)]))
                /\ UNCHANGED << registration, lvl >>
           ELSE LET iters == md.iteration_staging[lvl + 1]
                IN  /\ registration' = [registration EXCEPT !.iterations = iters]
                    /\ ops' = (IF lvl = 0 THEN ops
                               ELSE Append(ops, Op("ResampleField",
                                                   [onto |-> Grid(f_image)])))
                              \o << DemonsExecuteOp(lvl, f_image, m_image, field, iters) >>
                    /\ \/ /\ err' = DemonsFailure
                          /\ pc' = MdSolverFailureTarget(md.return_to)
                          /\ initial_displacement_field' = field
                          /\ UNCHANGED lvl
                       \/ /\ initial_displacement_field' =
                                 DemonsOutput(f_image, m_image, field, iters)
                          /\ lvl' = lvl + 1
                          /\ pc' = IF lvl + 1 = n THEN "md_finish" ELSE "md_run"
                          /\ UNCHANGED err
    /\ UNCHANGED << call, localVars, fixed_images, moving_images, resultVars,
                    resampler, tp, ret >>
    /\ defaults' = AfterRead(defaults, { <<"dm_iteration_staging", "iteration_staging">> },
                            md.defaulted)
    /\ UNCHANGED first_run

\* lines 530-534: the outputs of multiscale_demons
MdFinish ==
    /\ pc = "md_finish"
    /\ LET output_displacement_field ==
               ResampleOnto(initial_displacement_field, initial_displacement_field)
           transform == [kind |-> "DisplacementFieldTransform", members |-> << >>,
                         state |-> "optimised", grid |-> Grid(initial_displacement_field)]
       IN  /\ ops' = Append(ops, Op("ResampleField",
                                    [onto |-> Grid(initial_displacement_field)]))
           /\ output_transform' = transform
           /\ deformation_field' = output_displacement_field
           /\ IF call.fn = "multiscale_demons"
              THEN ret' = [transform |-> transform, field |-> output_displacement_field]
              ELSE UNCHANGED ret
    /\ pc' = md.return_to
    /\ UNCHANGED << call, localVars, pyramidVars, registered_image, combined_transform,
                    md, registration, resampler, tp, err >>
    /\ UNCHANGED << first_run, defaults >>

-----------------------------------------------------------------------------
(* fast_symmetric_forces_demons_registration *)

PyList(l) == [kind |-> "list", value |-> l]

\* lines 604-605: the sigma schedule handed to multiscale_demons
DmSmoothingSigmas(smoothing_sigmas, smoothing_sigma_factor, resolution_staging) ==
    IF smoothing_sigmas = PyFalse \/ smoothing_sigmas = PyList(<< >>)
    THEN [i \in 1..Len(resolution_staging) |-> resolution_staging[i] * smoothing_sigma_factor]
    ELSE smoothing_sigmas.value

\* lines 583-586: cast to float unless the pixel id is 6
DmCast(img) == IF img.pixel # DemonsNoCastPixelID THEN Cast(img, sitkFloat32) ELSE img

DmCastOps(img) ==
    IF img.pixel # DemonsNoCastPixelID THEN << CastOp(img, sitkFloat32) >> ELSE << >>

\* line 620: the interpolator of the final resampling
DmInterpolator(structure, interp_order) == interp_order

\* lines 622-625: the fill value of the final resampling
DmDefaultPixelValue(structure, default_value) == IF structure THEN 0 ELSE default_value

CallDemonsRegistration ==
    /\ pc = "idle"
    /\ \E p \in ImagePairs,
          resolution_staging \in { None, PyList(<<2, 1>>) },
          iteration_staging \in { None, PyList(<<10>>) },
          smoothing_sigmas \in { PyFalse, PyList(<<0, 0, 0>>) },
          isotropic_resample \in BOOLEAN, given_field \in BOOLEAN,
          structure \in BOOLEAN, interp_order \in Interpolators, verbose \in BOOLEAN :
          call' = [fn |-> "fast_symmetric_forces_demons_registration",
                   fixed_image |-> p[1], moving_image |-> p[2],
                   resolution_staging |->
                       IF resolution_staging = None THEN defaults.dm_resolution_staging
                       ELSE resolution_staging.value,
                   iteration_staging |->
                       IF iteration_staging = None THEN defaults.dm_iteration_staging
                       ELSE iteration_staging.value,
                   defaulted |->
                       (IF resolution_staging = None THEN {"resolution_staging"} ELSE {})
                       \cup (IF iteration_staging = None THEN {"iteration_staging"} ELSE {}),
                   isotropic_resample |-> isotropic_resample,
                   initial_displacement_field |->
                       IF given_field THEN GivenField(p[1]) ELSE None,
                   smoothing_sigma_factor |-> 1, smoothing_sigmas |-> smoothing_sigmas,
                   default_value |-> -1000, structure |-> structure,
                   interp_order |-> interp_order, verbose |-> verbose]
    /\ pc' = "dm_setup"
    /\ UNCHANGED << localVars, pyramidVars, resultVars, registration, resampler,
                    tp, ops, ret, err >>
    /\ UNCHANGED << first_run, defaults >>

\* lines 579-616: casts, demons filter, sigma schedule, call of multiscale_demons
DmSetup ==
    /\ pc = "dm_setup"
    /\ fixed_image' = DmCast(call.fixed_image)
    /\ moving_image' = DmCast(call.moving_image)
    /\ ops' = ops \o DmCastOps(call.fixed_image) \o DmCastOps(call.moving_image)
    /\ registration' = AddCommands(NewDemonsFilter, call.verbose, {"sitkIterationEvent"})
    /\ md' = [fixed_image |-> DmCast(call.fixed_image),
              moving_image |-> DmCast(call.moving_image),
              initial_transform |-> None,
              initial_displacement_field |-> call.initial_displacement_field,
              shrink_factors |-> call.resolution_staging,
              smoothing_sigmas |-> DmSmoothingSigmas(call.smoothing_sigmas,
                                                     call.smoothing_sigma_factor,
                                                     call.resolution_staging),
              iteration_staging |-> call.iteration_staging,
              isotropic_resample |-> call.isotropic_resample,
              defaulted |->
                  (IF "resolution_staging" \in call.defaulted
                   THEN {"shrink_factors"} ELSE {})
                  \cup (call.defaulted \cap {"iteration_staging"}),
              return_to |-> "dm_resample"]
    /\ pc' = "md_pyramid"
    /\ UNCHANGED << call, fixed_image_original, initial_transform, pyramidVars,
                    output_transform, registered_image, combined_transform,
                    deformation_field, resampler, tp, ret, err >>
    /\ defaults' = AfterRead(defaults, { <<"dm_resolution_staging", "resolution_staging">> },
                            call.defaulted)
    /\ UNCHANGED first_run

\* lines 618-628: the final resampling of the moving image
DmResample ==
    /\ pc = "dm_resample"
    /\ LET r == [reference |-> fixed_image, transform |-> output_transform,
                 interp |-> DmInterpolator(call.structure, call.interp_order),
                 default |-> DmDefaultPixelValue(call.structure, call.default_value)]
       IN  /\ resampler' = r
           /\ registered_image' = ResamplerOutput(r, moving_image)
           /\ ops' = Append(ops, ResamplerExecuteOp(r, moving_image))
    /\ pc' = "dm_finish"
    /\ UNCHANGED << call, localVars, pyramidVars, output_transform, combined_transform,
                    deformation_field, md, registration, tp, ret, err >>
    /\ UNCHANGED << first_run, defaults >>

\* lines 630-640: threshold a structure, cast back, resample the field, return
DmFinish ==
    /\ pc = "dm_finish"
    /\ LET thresholded ==
               IF call.structure
               THEN [Cast(registered_image, sitkFloat32) EXCEPT
                        !.hist = Append(@, Op("BinaryThreshold",
                                              [lower |-> "1e-5", upper |-> 100])),
                        !.pixel = sitkUInt8]
               ELSE registered_image
           copied == [thresholded EXCEPT !.size = fixed_image.size,
                                         !.spacing = fixed_image.spacing,
                                         !.frame = fixed_image.frame]
           out == Cast(copied, call.moving_image.pixel)
           resampled_field == ResampleOnto(deformation_field, fixed_image)
       IN  /\ registered_image' = out
           /\ ops' = ops
                     \o (IF call.structure
                         THEN << CastOp(registered_image, sitkFloat32),
                                 Op("BinaryThreshold", [src |-> registered_image.src]) >>
                         ELSE << >>)
                     \o << CastOp(copied, call.moving_image.pixel),
                           Op("ResampleField", [onto |-> Grid(fixed_image)]) >>
           /\ ret' = [registered_image |-> out, transform |-> output_transform,
                      field |-> resampled_field]
    /\ pc' = "done"
    /\ UNCHANGED << call, localVars, pyramidVars, output_transform, combined_transform,
                    deformation_field, md, registration, resampler, tp, err >>
    /\ UNCHANGED << first_run, defaults >>

-----------------------------------------------------------------------------
(* convert_mask_to_distance_map *)

\* a mask handed in by a caller: an image and the set of voxel values it holds
Mask(pixel, values) ==
    [size |-> <<16, 16, 16>>, spacing |-> << <<1,1>>, <<1,1>>, <<1,1>> >>,
     frame |-> "F", pixel |-> pixel, src |-> "mask", hist |-> << >>,
     values |-> values]

DistanceMapMasks ==
    { Mask(sitkUInt8, {0, 1}), Mask(sitkUInt8, {0, 1, 2}), Mask(sitkInt16, {0, 1, 2, 3}),
      Mask(sitkFloat32, {0, 1}), Mask(sitkFloat32, {0, 1, 2}) }

\* the pixel types sitk.SignedMaurerDistanceMap is instantiated for
IntegerPixelIDs == {sitkUInt8, sitkInt16}

DistanceMapFailure == "RuntimeError: pixel type not supported by SignedMaurerDistanceMap"

\* lines 32-37: the raw map; the library takes every voxel that differs from
\* the background value 0 as inside
SignedMaurerDistanceMap(mask, squared_distance) ==
    [size |-> mask.size, spacing |-> mask.spacing, frame |-> mask.frame,
     pixel |-> sitkFloat32, src |-> mask.src,
     hist |-> << Op("SignedMaurerDistanceMap",
                    [inside |-> mask.values \ {0}, insideIsPositive |-> TRUE,
                     squaredDistance |-> squared_distance, useImageSpacing |-> TRUE]) >>]

\* lines 39-42: raw_map / raw_map.max() under normalise, raw_map otherwise
CmResult(raw_map, normalise) ==
    IF normalise
    THEN [raw_map EXCEPT !.hist = Append(@, Op("Divide", [by |-> "max of raw_map"]))]
    ELSE raw_map

CallConvertMaskToDistanceMap ==
    /\ pc = "idle"
    /\ \E mask \in DistanceMapMasks, squared_distance \in BOOLEAN, normalise \in BOOLEAN :
          call' = [fn |-> "convert_mask_to_distance_map", mask |-> mask,
                   squared_distance |-> squared_distance, normalise |-> normalise]
    /\ pc' = "cm_map"
    /\ UNCHANGED << localVars, pyramidVars, resultVars, registration, resampler,
                    tp, ops, ret, err >>
    /\ UNCHANGED << first_run, defaults >>

\* lines 32-42: the mask goes to the library as it is; no check of its values
ConvertMaskToDistanceMap ==
    /\ pc = "cm_map"
    /\ ops' = Append(ops, Op("SignedMaurerDistanceMap", [src |-> call.mask.src]))
    /\ IF call.mask.pixel \notin IntegerPixelIDs
       THEN /\ err' = DistanceMapFailure
            /\ pc' = "error"
            /\ UNCHANGED ret
       ELSE /\ ret' = [distance_map |->
                          CmResult(SignedMaurerDistanceMap(call.mask, call.squared_distance),
                                   call.normalise)]
            /\ pc' = "done"
            /\ UNCHANGED err
    /\ UNCHANGED << call, localVars, pyramidVars, resultVars, registration, resampler, tp >>
    /\ UNCHANGED << first_run, defaults >>

-----------------------------------------------------------------------------

(* smooth_and_resample called on its own *)

\* images and shrink factors (a number, or a list with one entry per axis)
SarImages ==
    { Image(<<15, 10, 9>>, << <<1,1>>, <<3,2>>, <<2,1>> >>, "F", sitkFloat32, "image"),
      Image(<<16, 8, 8>>,  << <<1,1>>, <<1,1>>, <<2,1>> >>, "F", sitkInt16, "image"),
      Image(<<16, 8>>,     << <<1,1>>, <<2,1>> >>, "F", sitkFloat32, "image") }

SarShrinkFactors(image) ==
    { Scalar(f) : f \in {1, 2, 3, 16} }
        \cup (IF Len(image.size) = 3
              THEN { PerAxis(<<2, 2, 1>>), PerAxis(<<4, 3, 2>>), PerAxis(<<2, 8, 2>>) }
              ELSE { PerAxis(<<3, 2>>) })

CallSmoothAndResample ==
    /\ pc = "idle"
    /\ \E image \in SarImages, smoothing_sigma \in {0, 2}, isotropic_resample \in BOOLEAN :
          \E shrink_factor \in SarShrinkFactors(image) :
              call' = [fn |-> "smooth_and_resample", image |-> image,
                       shrink_factor |-> shrink_factor,
                       smoothing_sigma |-> smoothing_sigma,
                       isotropic_resample |-> isotropic_resample]
    /\ pc' = "sar"
    /\ UNCHANGED << localVars, pyramidVars, resultVars, registration, resampler,
                    tp, ops, ret, err >>
    /\ UNCHANGED << first_run, defaults >>

\* lines 391-426: smooth, compute the new grid (which raises when a new size is
\* 1), resample
SarExecute ==
    /\ pc = "sar"
    /\ IF SarZeroDivision(call.image, call.shrink_factor, call.isotropic_resample)
       THEN /\ ops' = ops \o SarOpsRaised(call.image, call.smoothing_sigma)
            /\ err' = ZeroDivisionError
            /\ pc' = "error"
            /\ UNCHANGED ret
       ELSE /\ ops' = ops \o SarOps(call.image, call.shrink_factor, call.smoothing_sigma,
                                    call.isotropic_resample)
            /\ ret' = [image |-> SmoothAndResample(call.image, call.shrink_factor,
                                                   call.smoothing_sigma,
                                                   call.isotropic_resample)]
            /\ pc' = "done"
            /\ UNCHANGED err
    /\ UNCHANGED << call, localVars, pyramidVars, resultVars, registration, resampler, tp >>
    /\ UNCHANGED << first_run, defaults >>

-----------------------------------------------------------------------------

(* control_point_spacing_distance_to_number called on its own *)

CpImages ==
    { Image(<<256, 256, 100>>, << <<1,1>>, <<1,2>>, <<3,1>> >>, "F", sitkFloat32, "image"),
      Image(<<96, 128, 300>>,  << <<1,1>>, <<1,1>>, <<1,1>> >>, "F", sitkInt16, "image"),
      Image(<<16, 8, 8>>,      << <<1,1>>, <<1,1>>, <<2,1>> >>, "F", sitkFloat32, "image") }

\* grid spacings in mm (64 is the default of bspline_registration)
CpGridSpacings == {8, 48, 64}

CallControlPointSpacing ==
    /\ pc = "idle"
    /\ \E image \in CpImages, grid_spacing \in CpGridSpacings :
          call' = [fn |-> "control_point_spacing_distance_to_number", image |-> image,
                   grid_spacing |-> grid_spacing]
    /\ pc' = "cp"
    /\ UNCHANGED << localVars, pyramidVars, resultVars, registration, resampler,
                    tp, ops, ret, err >>
    /\ UNCHANGED << first_run, defaults >>

\* lines 107-110
CpExecute ==
    /\ pc = "cp"
    /\ ret' = [number_points |->
                  control_point_spacing_distance_to_number(call.image, call.grid_spacing)]
    /\ pc' = "done"
    /\ UNCHANGED << call, localVars, pyramidVars, resultVars, registration, resampler,
                    tp, ops, err >>
    /\ UNCHANGED << first_run, defaults >>

-----------------------------------------------------------------------------

(* The call has returned or raised: the caller may make the next call *)

Return ==
    /\ pc \in {"done", "error"}
    /\ pc' = "idle"
    /\ call' = [fn |-> "none"]
    /\ fixed_image' = None
    /\ moving_image' = None
    /\ fixed_image_original' = None
    /\ initial_transform' = None
    /\ registration' = None
    /\ resampler' = None
    /\ fixed_images' = << >>
    /\ moving_images' = << >>
    /\ initial_displacement_field' = None
    /\ lvl' = 0
    /\ output_transform' = None
    /\ registered_image' = None
    /\ combined_transform' = None
    /\ deformation_field' = None
    /\ tp' = None
    /\ md' = None
    /\ ops' = << >>
    /\ ret' = None
    /\ err' = NoError
    /\ first_run' = None
    /\ UNCHANGED defaults

Next ==
    \/ CallTransformPropagation
    \/ TransformPropagation
    \/ CallApplyField
    \/ ApplyField
    \/ CallInitialRegistration
    \/ IrSetup
    \/ IrTransform
    \/ IrOptimiser
    \/ IrExecute
    \/ IrFinish
    \/ CallBsplineRegistration
    \/ BsCast
    \/ BsIsotropic
    \/ BsSetup
    \/ BsTransform
    \/ BsExecute
    \/ BsFinish
    \/ CallMultiscaleDemons
    \/ MdPyramid
    \/ MdField
    \/ MdRun
    \/ MdFinish
    \/ CallDemonsRegistration
    \/ DmSetup
    \/ DmResample
    \/ DmFinish
    \/ CallConvertMaskToDistanceMap
    \/ ConvertMaskToDistanceMap
    \/ CallSmoothAndResample
    \/ SarExecute
    \/ CallControlPointSpacing
    \/ CpExecute
    \/ Return

Spec == Init /\ [][Next]_vars

-----------------------------------------------------------------------------
(* A caller that repeats a finished stage call on the same inputs with       *)
(* verbose flipped; first_run keeps what the first call did.                 *)

VerboseStages == {"initial_registration", "bspline_registration",
                  "fast_symmetric_forces_demons_registration"}

\* the first position of a stage
StageEntry(fn) ==
    IF fn = "initial_registration" THEN "ir_setup"
    ELSE IF fn = "bspline_registration" THEN "bs_cast"
    ELSE "dm_setup"

KeepFirstRun ==
    /\ pc \in {"done", "error"}
    /\ first_run = None
    /\ call.fn \in VerboseStages
    /\ first_run' = [call |-> call, ops |-> ops, ret |-> ret, err |-> err]
    /\ pc' = "repeat"
    /\ UNCHANGED << call, localVars, pyramidVars, resultVars, registration, resampler,
                    tp, ops, ret, err, defaults >>

RepeatCall ==
    /\ pc = "repeat"
    /\ call' = [first_run.call EXCEPT !.verbose = ~@]
    /\ pc' = StageEntry(first_run.call.fn)
    /\ fixed_image' = None
    /\ moving_image' = None
    /\ fixed_image_original' = None
    /\ initial_transform' = None
    /\ registration' = None
    /\ resampler' = None
    /\ fixed_images' = << >>
    /\ moving_images' = << >>
    /\ initial_displacement_field' = None
    /\ lvl' = 0
    /\ output_transform' = None
    /\ registered_image' = None
    /\ combined_transform' = None
    /\ deformation_field' = None
    /\ tp' = None
    /\ md' = None
    /\ ops' = << >>
    /\ ret' = None
    /\ err' = NoError
    /\ UNCHANGED << first_run, defaults >>

NextRepeat ==
    \/ CallInitialRegistration
    \/ IrSetup
    \/ IrTransform
    \/ IrOptimiser
    \/ IrExecute
    \/ IrFinish
    \/ CallBsplineRegistration
    \/ BsCast
    \/ BsIsotropic
    \/ BsSetup
    \/ BsTransform
    \/ BsExecute
    \/ BsFinish
    \/ CallDemonsRegistration
    \/ DmSetup
    \/ MdPyramid
    \/ MdField
    \/ MdRun
    \/ MdFinish
    \/ DmResample
    \/ DmFinish
    \/ TransformPropagation
    \/ Return
    \/ KeepFirstRun
    \/ RepeatCall

SpecRepeat == Init /\ [][NextRepeat]_vars


-----------------------------------------------------------------------------
(* Properties *)

Terminal == pc \in {"done", "error"}

Appliers == {"apply_field", "transform_propagation"}

\* C1: in apply_field and transform_propagation, a structure with an interpolator
\* other than nearest neighbour ends the call in ValueError with the resampler
\* never executed; otherwise the resampler is executed exactly once by the time
\* the call returns, and the call does not raise.
C1_StructureInterpolationEnforced ==
    call.fn \in Appliers =>
        IF call.structure /\ call.interp # sitkNearestNeighbor
        THEN /\ OpCount(ops, "ResamplerExecute") = 0
             /\ pc # "done"
             /\ ret = None
             /\ pc = "error" => err = StructureInterpError
        ELSE /\ OpCount(ops, "ResamplerExecute") <= 1
             /\ pc # "error"
             /\ pc = "done" => OpCount(ops, "ResamplerExecute") = 1

C1_Witness ==
    /\ call.fn = "transform_propagation"
    /\ call.structure
    /\ call.interp = sitkLinear
    /\ pc = "error"

\* C2: in the demons stage a structure is resampled with nearest neighbour
\* interpolation whatever interp_order is, and the returned image went through
\* the binary threshold.
C2_DemonsStructureNearestNeighbour ==
    (call.fn = "fast_symmetric_forces_demons_registration" /\ call.structure) =>
        /\ \A i \in OpIndices(ops, "ResamplerExecute") :
               ops[i].info.interp = sitkNearestNeighbor
        /\ pc = "done" =>
               \E i \in 1..Len(ret.registered_image.hist) :
                   ret.registered_image.hist[i].op = "BinaryThreshold"

\* two characters that are the same letter, whatever their case
SameLetter(c, d) ==
    c = d \/ \E i \in 1..26 : {c, d} = {UpperChars[i], LowerChars[i]}

\* two names equal up to case
SameName(a, b) ==
    Len(a) = Len(b) /\ \A i \in 1..Len(a) : SameLetter(a[i], b[i])

TransformFamilies ==
    {S_translation, S_rigid, S_similarity, S_affine, S_scaleversor, S_scaleskewversor}

UnknownFamily(reg_method) == \A f \in TransformFamilies : ~SameName(reg_method, f)

\* C3: in initial_registration a reg_method that names no transform family (up
\* to case) ends the call in ValueError at the family dispatch: the optimiser is
\* never configured, no progress command is added, registration.Execute is never
\* called and nothing is returned.
C3_UnknownFamilyRaises ==
    (call.fn = "initial_registration" /\ UnknownFamily(call.reg_method)) =>
        /\ pc \in {"ir_setup", "ir_transform", "error"}
        /\ pc = "error" => err = RegMethodError
        /\ pc # "ir_setup" =>
               /\ registration.optimiser = LibraryDefault
               /\ registration.commands = {}
               /\ registration.initial_transform = None
        /\ OpCount(ops, "RegistrationExecute") = 0
        /\ ret = None

C3_Witness ==
    /\ call.fn = "initial_registration"
    /\ UnknownFamily(call.reg_method)
    /\ pc = "error"
    /\ err = RegMethodError

Stages == {"initial_registration", "bspline_registration"}

\* the metric names each stage documents and dispatches on
SupportedMetrics(fn) ==
    IF fn = "initial_registration"
    THEN {"correlation", "mean_squares", "mattes_mi", "joint_hist_mi", "ants"}
    ELSE {"correlation", "mean_squares", "demons", "mutual_information"}

\* C4: in the linear and the B-spline stage an unsupported metric name ends the
\* call in an error before the registration is executed.
C4_UnsupportedMetricRaises ==
    (call.fn \in Stages /\ call.metric \notin SupportedMetrics(call.fn)) =>
        /\ OpCount(ops, "RegistrationExecute") = 0
        /\ pc # "done"

\* the optimiser names each stage dispatches on, lower-cased
SupportedOptimisers(fn) ==
    IF fn = "initial_registration"
    THEN {S_lbfgsb, S_exhaustive, S_gradient_descent_line_search, S_gradient_descent}
    ELSE {S_lbfgsb, S_lbfgs, S_cgls, S_gradient_descent, S_gradient_descent_line_search}

UnknownOptimiser(fn, optimiser) ==
    \A o \in SupportedOptimisers(fn) : ~SameName(optimiser, o)

\* C5: in the linear and the B-spline stage an unsupported optimiser name ends
\* the call in an error before the registration is executed.
C5_UnsupportedOptimiserRaises ==
    (call.fn \in Stages /\ UnknownOptimiser(call.fn, call.optimiser)) =>
        /\ OpCount(ops, "RegistrationExecute") = 0
        /\ pc # "done"

ConfigurationErrors == {RegMethodError}

ImageProcessingOps ==
    {"Cast", "DiscreteGaussian", "Resample", "ResamplerExecute",
     "CenteredTransformInitializer", "BSplineTransformInitializer",
     "RegistrationExecute", "DemonsExecute"}

C7_CompositeOrder ==
    (call.fn = "initial_registration" /\ combined_transform # None) =>
        /\ Len(combined_transform.members) = 2
        /\ combined_transform.members[1] = initial_transform
        /\ combined_transform.members[1].kind = "Euler3DTransform"
        /\ combined_transform.members[2] = output_transform
        /\ combined_transform.members[2].state = "optimised"
        /\ tp.transform = combined_transform
        /\ \A i \in OpIndices(ops, "ResamplerExecute") :
               ops[i].info.transform = combined_transform
        /\ pc = "done" => ret.transform = combined_transform

C7_Witness ==
    /\ call.fn = "initial_registration"
    /\ pc = "done"
    /\ Len(ret.transform.members) = 2
    /\ ret.transform.members[2].kind = "AffineTransform"

AllStages == Stages \cup {"fast_symmetric_forces_demons_registration"}

\* C8: every stage returns its registered image on the grid of the fixed image
\* the caller passed in, also when the B-spline stage worked on an isotropic
\* resample of it.
C8_RegisteredOnCallerFixedGrid ==
    (call.fn \in AllStages /\ pc = "done") =>
        /\ Grid(ret.registered_image) = Grid(call.fixed_image)
        /\ \A i \in OpIndices(ops, "ResamplerExecute") :
               ops[i].info.grid = Grid(call.fixed_image)

C8_Witness ==
    /\ call.fn = "bspline_registration"
    /\ pc = "done"
    /\ call.isotropic_resample
    /\ Grid(fixed_image) # Grid(call.fixed_image)
    /\ Grid(ret.registered_image) = Grid(call.fixed_image)

DemonsCalls == {"fast_symmetric_forces_demons_registration", "multiscale_demons"}

\* C9: a solver failure at a pyramid level ends the whole call in that error:
\* the failed run is the last library call made, and no field, transform or
\* registered image is returned or kept as a result.
C9_SolverFailureAborts ==
    (call.fn \in DemonsCalls /\ err = DemonsFailure) =>
        /\ pc = "error"
        /\ ret = None
        /\ output_transform = None
        /\ deformation_field = None
        /\ registered_image = None
        /\ ops[Len(ops)].op = "DemonsExecute"
        /\ ops[Len(ops)].info.run = lvl
        /\ OpCount(ops, "DemonsExecute") = lvl + 1

C9_Witness ==
    /\ call.fn = "fast_symmetric_forces_demons_registration"
    /\ err = DemonsFailure
    /\ lvl = 1
    /\ Len(fixed_images) = 3

\* the schedule lists of the running multiscale_demons all have length L
EqualLength(L) ==
    /\ Len(md.shrink_factors) = L
    /\ Len(md.smoothing_sigmas) = L
    /\ Len(md.iteration_staging) = L

NonIncreasing(seq) == \A i \in 1..(Len(seq) - 1) : seq[i] >= seq[i + 1]

\* the pyramid loop of the running multiscale_demons has ended
PyramidLoopEnded ==
    /\ call.fn \in DemonsCalls
    /\ md # None
    /\ pc \notin {"md_pyramid", "dm_setup"}

\* the pyramid was built completely
PyramidBuilt == PyramidLoopEnded /\ err # ZeroDivisionError

\* the images of the solver runs made so far, in the order of the runs,
\* never lose voxels from one run to the next
RunsNeverCoarsen ==
    \A i, j \in OpIndices(ops, "DemonsExecute") :
        i < j => /\ VoxelCount(ops[i].info.fixed) <= VoxelCount(ops[j].info.fixed)
                 /\ VoxelCount(ops[i].info.moving) <= VoxelCount(ops[j].info.moving)

\* position p of the pyramid lists, counted in processing order (1 is run first)
Processed(images, p) == images[Len(images) + 1 - p]

LevelsNeverCoarsen ==
    \A p \in 1..(Len(fixed_images) - 1) :
        /\ VoxelCount(Processed(fixed_images, p))
               <= VoxelCount(Processed(fixed_images, p + 1))
        /\ VoxelCount(Processed(moving_images, p))
               <= VoxelCount(Processed(moving_images, p + 1))

BinaryValued(mask) == Cardinality(mask.values) <= 2

\* C11: convert_mask_to_distance_map returns no distance map for a mask that is
\* not binary-valued: such a call never reaches its return.
C11_NonBinaryMaskFails ==
    (call.fn = "convert_mask_to_distance_map" /\ ~BinaryValued(call.mask)) =>
        (pc # "done" /\ ret = None)

\* library failures: they do not depend on the arguments of the call
LibraryFailures == {DemonsFailure, RegistrationFailure}

Prefix(a, b) == Len(a) <= Len(b) /\ SubSeq(b, 1, Len(a)) = a

\* the repeated call is running or has ended
Repeating == first_run # None /\ pc # "repeat"

\* C12: a stage repeated on the same inputs with verbose flipped makes the same
\* library calls with the same parameters in the same order as the first run,
\* up to the point where the library fails in one of them, and when both runs
\* end at the same point they end the same way with the same outputs.
C12_VerboseDoesNotSteer ==
    Repeating =>
        /\ call = [first_run.call EXCEPT !.verbose = ~@]
        /\ Prefix(ops, first_run.ops) \/ Prefix(first_run.ops, ops)
        /\ Len(ops) > Len(first_run.ops) => first_run.err \in LibraryFailures
        /\ (Terminal /\ Len(ops) < Len(first_run.ops)) => err \in LibraryFailures
        /\ (Terminal /\ err \notin LibraryFailures /\ first_run.err \notin LibraryFailures) =>
               (ops = first_run.ops /\ err = first_run.err /\ ret = first_run.ret)

C12_Witness ==
    /\ Repeating
    /\ pc = "done"
    /\ call.fn = "fast_symmetric_forces_demons_registration"
    /\ call.verbose
    /\ ~first_run.call.verbose
    /\ "sitkIterationEvent" \in registration.commands
    /\ OpCount(ops, "DemonsExecute") >= 2
    /\ ops = first_run.ops
    /\ ret = first_run.ret

\* positions in the log where a solver is run
SolverRuns(log) == OpIndices(log, "RegistrationExecute") \cup OpIndices(log, "DemonsExecute")

ScheduleLevel(image, k) ==
    SmoothAndResample(image, Scalar(md.shrink_factors[k + 1]),
                      md.smoothing_sigmas[k + 1], md.isotropic_resample)

\* the run loop of the running multiscale_demons has ended without an error
RunLoopEnded ==
    /\ PyramidLoopEnded
    /\ pc \in {"md_finish", "dm_resample", "dm_finish", "done"}

C15_InitialFieldPrecedence ==
    (call.fn \in DemonsCalls /\ md # None) =>
        \A i \in OpIndices(ops, "DemonsExecute") :
            ops[i].info.run = 0 =>
                LET field == ops[i].info.field
                    coarsest == ScheduleLevel(md.fixed_image, 0)
                IN  /\ Grid(field) = Grid(coarsest)
                    /\ field.pixel = sitkVectorFloat64
                    /\ IF md.initial_displacement_field # None
                       THEN /\ field.src = md.initial_displacement_field.src
                            /\ field.hist = << Op("Resample", [onto |-> Grid(coarsest)]) >>
                       ELSE IF md.initial_transform # None
                       THEN /\ field.src = "transform"
                            /\ field.hist = << Op("TransformToDisplacementField",
                                                  [transform |-> md.initial_transform]) >>
                       ELSE /\ field.src = "zero"
                            /\ field.hist = << >>

C15_Witness ==
    /\ call.fn = "multiscale_demons"
    /\ md.initial_displacement_field # None
    /\ md.initial_transform # None
    /\ pc = "md_run"
    /\ lvl = 1
    /\ ops[Len(ops)].op = "DemonsExecute"
    /\ ops[Len(ops)].info.field.src = "given field"
    /\ Grid(ops[Len(ops)].info.field) # Grid(md.initial_displacement_field)

\* the shrink factor smooth_and_resample applies on axis i
AxisFactor(shrink_factor, i) ==
    IF shrink_factor.is_list THEN shrink_factor.value[i] ELSE shrink_factor.value

\* C16: with isotropic_resample false, the image smooth_and_resample returns
\* has on every axis the size S/f rounded to the nearest integer (a half
\* rounds up) and a spacing p with (new_size - 1) * p = (S - 1) * P; origin
\* and direction are those of the input.
C16_NewSizeAndSpacing ==
    (call.fn = "smooth_and_resample" /\ ~call.isotropic_resample /\ pc = "done") =>
        /\ Len(ret.image.size) = Len(call.image.size)
        /\ Len(ret.image.spacing) = Len(call.image.size)
        /\ ret.image.frame = call.image.frame
        /\ \A i \in 1..Len(call.image.size) :
               LET S == call.image.size[i]
                   P == call.image.spacing[i]
                   f == AxisFactor(call.shrink_factor, i)
                   n == ret.image.size[i]
                   p == ret.image.spacing[i]
               IN  /\ 2 * S - f < 2 * n * f
                   /\ 2 * n * f <= 2 * S + f
                   /\ p[2] > 0
                   /\ (n - 1) * p[1] * P[2] = (S - 1) * P[1] * p[2]

C16_Witness ==
    /\ call.fn = "smooth_and_resample"
    /\ ~call.isotropic_resample
    /\ pc = "done"
    /\ call.image.size = <<15, 10, 9>>
    /\ call.shrink_factor = PerAxis(<<4, 3, 2>>)
    /\ ret.image.size = <<4, 3, 5>>
    /\ ret.image.spacing = << <<14, 3>>, <<27, 4>>, <<4, 1>> >>

\* n is size * spacing / grid_spacing rounded to the nearest integer (a half
\* rounds up), for a rational spacing
NearestNumber(n, size, spacing, grid_spacing) ==
    /\ 2 * size * spacing[1] - grid_spacing * spacing[2] < 2 * n * grid_spacing * spacing[2]
    /\ 2 * n * grid_spacing * spacing[2] <= 2 * size * spacing[1] + grid_spacing * spacing[2]

\* C17: control_point_spacing_distance_to_number returns per axis the integer
\* nearest to size * spacing / grid_spacing (4 for size 256, spacing 1, grid
\* spacing 64; 2 for size 256, spacing 1/2, grid spacing 64), and the B-spline
\* stage initialises its transform with that number computed on the working
\* fixed image.
C17_ControlPointNumber ==
    /\ (call.fn = "control_point_spacing_distance_to_number" /\ pc = "done") =>
           /\ Len(ret.number_points) = Len(call.image.size)
           /\ \A i \in 1..Len(call.image.size) :
                  /\ ret.number_points[i] \in Nat
                  /\ NearestNumber(ret.number_points[i], call.image.size[i],
                                   call.image.spacing[i], call.grid_spacing)
                  /\ (call.image.size[i] = 256 /\ call.image.spacing[i] = <<1, 1>>
                         /\ call.grid_spacing = 64) => ret.number_points[i] = 4
                  /\ (call.image.size[i] = 256 /\ call.image.spacing[i] = <<1, 2>>
                         /\ call.grid_spacing = 64) => ret.number_points[i] = 2
    /\ call.fn = "bspline_registration" =>
           \A j \in OpIndices(ops, "BSplineTransformInitializer") :
               /\ ops[j].info.fixed = Grid(fixed_image)
               /\ call.isotropic_resample =>
                      fixed_image = SmoothAndResample(Cast(call.fixed_image, sitkFloat32),
                                                      Scalar(call.initial_isotropic_size),
                                                      0, TRUE)
               /\ ~call.isotropic_resample => fixed_image = Cast(call.fixed_image, sitkFloat32)
               /\ initial_transform.mesh_size = ops[j].info.mesh_size
               /\ \A i \in 1..Len(fixed_image.size) :
                      NearestNumber(ops[j].info.mesh_size[i], fixed_image.size[i],
                                    fixed_image.spacing[i], call.initial_grid_spacing)

C17_Witness ==
    /\ call.fn = "control_point_spacing_distance_to_number"
    /\ pc = "done"
    /\ call.image.size = <<256, 256, 100>>
    /\ call.grid_spacing = 64
    /\ ret.number_points = <<4, 2, 5>>

\* C18: whatever calls have been made, with default or with explicit
\* schedules, the default schedule lists hold the values they were written
\* with, and a call that leaves a schedule out runs with those values.
C18_DefaultListsKept ==
    /\ defaults = DefaultLists
    /\ call.fn = "initial_registration" =>
           /\ call.shrink_factors = <<8, 2, 1>>
           /\ call.smooth_sigmas = <<4, 2, 0>>
    /\ call.fn = "bspline_registration" =>
           /\ call.resolution_staging = <<8, 4, 2>>
           /\ call.smooth_sigmas = <<4, 2, 1>>
           /\ call.grid_scale_factors = <<1, 2, 4>>
    /\ call.fn = "fast_symmetric_forces_demons_registration" =>
           /\ "resolution_staging" \in call.defaulted =>
                  call.resolution_staging = <<8, 4, 1>>
           /\ "iteration_staging" \in call.defaulted =>
                  call.iteration_staging = <<10, 10, 10>>

C18_Witness ==
    /\ call.fn = "fast_symmetric_forces_demons_registration"
    /\ call.defaulted = {"resolution_staging", "iteration_staging"}
    /\ call.smoothing_sigmas = PyFalse
    /\ pc = "done"
    /\ OpCount(ops, "DemonsExecute") = 3
    /\ md.shrink_factors = <<8, 4, 1>>
    /\ md.smoothing_sigmas = <<8, 4, 1>>
    /\ defaults.dm_resolution_staging = <<8, 4, 1>>

\* the mask a side ends up with: the structure the caller supplied, or none
SuppliedMask(structure) == IF structure = PyFalse THEN None ELSE structure

\* the masks of the registration object of the running stage have been set
MasksConfigured ==
    /\ call.fn \in Stages
    /\ registration # None
    /\ pc \notin {"ir_setup", "bs_cast", "bs_isotropic", "bs_setup"}

RoundsToOne(image, shrink_factor, isotropic_resample) ==
    \E i \in 1..Len(image.size) :
        NearestNumber(1, image.size[i],
                      IF isotropic_resample THEN image.spacing[i] ELSE <<1, 1>>,
                      AxisFactor(shrink_factor, i))

\* C20: a smooth_and_resample call whose new size is 1 on some axis ends in
\* ZeroDivisionError with nothing returned and no resampling made; a call
\* that returns an image has a new size of at least 2 on every axis and has
\* resampled once.
C20_NewSizeOneRaises ==
    (call.fn = "smooth_and_resample" /\ pc # "sar") =>
        LET one == RoundsToOne(call.image, call.shrink_factor, call.isotropic_resample)
        IN  /\ one => /\ pc = "error"
                      /\ err = ZeroDivisionError
                      /\ ret = None
                      /\ OpCount(ops, "Resample") = 0
            /\ ~one => /\ pc = "done"
                       /\ err = NoError
                       /\ OpCount(ops, "Resample") = 1
                       /\ \A i \in 1..Len(ret.image.size) : ret.image.size[i] >= 2

C20_Witness ==
    /\ call.fn = "smooth_and_resample"
    /\ call.isotropic_resample
    /\ call.smoothing_sigma > 0
    /\ pc = "error"
    /\ err = ZeroDivisionError
    /\ Len(ops) = 1
    /\ ops[1].op = "DiscreteGaussian"

\* the error of a list subscript past the end of the list
ListIndexError == "IndexError: list index out of range"

\* the solver runs made so far are runs 0 .. count-1 of the schedule, run k on
\* the levels built from entry k with the budget iteration_staging[k]
RunsAreFirst(count) ==
    LET runs == OpIndices(ops, "DemonsExecute")
    IN  /\ Cardinality(runs) = count
        /\ \A i \in runs :
               LET k == Cardinality({ j \in runs : j < i })
               IN  /\ ops[i].info.run = k
                   /\ ops[i].info.fixed = ScheduleLevel(md.fixed_image, k)
                   /\ ops[i].info.moving = ScheduleLevel(md.moving_image, k)
                   /\ ops[i].info.iters = md.iteration_staging[k + 1]

====
